---- MODULE Spec2Model ----
(***************************************************************************)
(* Session lifecycle and durability controller of the OAK-D continuous     *)
(* recorder (src/record.py): main's session loop, record_session, the      *)
(* signal handler, and the files of the session directory.                 *)
(*                                                                         *)
(* pc is the position of the single thread of control; its labels are the  *)
(* source lines of record.py ("m" = main, "r" = record_session).  The      *)
(* signal handler runs between any two steps.  Time is the wall clock in   *)
(* whole seconds (time.time(), datetime.now()); it is taken not to step    *)
(* backwards.  The collaborators (HandTracker, cv2, the file system, the   *)
(* disk) are the environment: each call into them chooses among the        *)
(* outcomes the call can have (return, return None/False, raise).          *)
(***************************************************************************)
EXTENDS Integers, Sequences, FiniteSets, TLC

\* ------------------------------------------------------------------ bounds
\* record_session calls made by main in one program run
MaxSessions == 2
\* non-None frames one Pose Source delivers (the verification frame included)
MaxPulls == 3

\* -------------------------------------------------------- program constants
\* time.sleep(5) after a failed construction or verification
RetryBackoff == 5
\* time.sleep(2) between two sessions
SessionPause == 2
\* "Check disk space every 30 seconds"
StatusInterval == 30

\* --session-duration values tried (seconds); the default is 3600
SessionDurations == {30, 40}
\* seconds a blocking next_frame() call of the frame loop may take; time
\* passes there and in time.sleep
FrameDelays == {0, StatusInterval + 1}

VARIABLES
    running,          \* module global `running`
    pc,               \* position of the thread of control
    clock,            \* wall clock, seconds
    max_duration,     \* args.session_duration
    disk,             \* "ok" / "high": get_disk_usage_percent() > max_disk_usage
    ncalls,           \* record_session calls made so far
    session_dir,      \* name of the current output_dir (its timestamp), 0 = none
    should_continue,  \* main's local: value record_session returned
    tracker,          \* "unset" / "live" / "exited": record_session's local handle
    unreleased,       \* Pose Sources constructed whose exit() was never invoked
    pulls,            \* non-None frames this session's Pose Source has delivered
    frame,            \* local `frame`: ordinal of the delivered frame, 0 = None
    hands,            \* local `hands`: "ok" / "bad" (a detection lacking label or lm_score)
    dirs,             \* session directories that exist on storage
    rgb_dir,          \* TRUE when <output_dir>/rgb_frames exists
    intrinsics,       \* local `intrinsics`: "nominal" / "calibrated"
    camera_info,      \* camera_info.json: "absent" / "partial" / the intrinsics written
    cam_writes,       \* times camera_info.json was opened for writing this session
    poses_exists,     \* TRUE when hand_poses.jsonl exists
    poses,            \* complete lines of hand_poses.jsonl as the OS sees them
    torn,             \* TRUE when hand_poses.jsonl ends with an incomplete line
    images,           \* sequence numbers N with rgb_frames/frame_N.jpg on storage
    metadata,         \* metadata.json
    frame_count,      \* local frame_count
    timestamps,       \* local timestamps
    start_time,       \* local start_time
    last_status_time, \* local last_status_time
    elapsed,          \* local elapsed
    timestamp_ms,     \* local timestamp_ms
    gate,             \* history: "pending" / "ctor_failed" / "verify_failed" / "passed"
    verified,         \* history: sessions whose verification pull returned a frame
    mkdir_failed,     \* history: output_dir.mkdir calls that raised
    exit_reason,      \* history: why the frame loop was left
    exit_raised,      \* history: TRUE when this session's tracker.exit() raised
    sig_pc,           \* history: where the signal that cleared `running` arrived, or "none"
    sig_pulls         \* history: value of pulls when that signal arrived, or -1

vars == <<running, pc, clock, max_duration, disk, ncalls, session_dir,
          should_continue, tracker, unreleased, pulls, frame, hands, dirs,
          rgb_dir, intrinsics, camera_info, cam_writes, poses_exists, poses,
          torn, images, metadata, frame_count, timestamps, start_time,
          last_status_time, elapsed, timestamp_ms, gate, verified,
          mkdir_failed, exit_reason, exit_raised, sig_pc, sig_pulls>>

\* the files of the current session directory
files == <<dirs, rgb_dir, camera_info, cam_writes, poses_exists, poses, torn,
           images, metadata>>
\* the locals of record_session's frame loop
locals == <<frame_count, timestamps, start_time, last_status_time, elapsed,
            timestamp_ms, frame, hands, intrinsics>>
\* main's own state
mainvars == <<max_duration, ncalls, session_dir, should_continue>>
\* history variables of the session
history == <<gate, verified, mkdir_failed, exit_reason, exit_raised>>
\* history variables of the signal
sighist == <<sig_pc, sig_pulls>>

NoMetadata == [state |-> "absent", frame_count |-> 0, duration_ms |-> 0]

\* the process has ended: main returned ("done"), an exception left main
\* ("crashed"), or power was lost ("off")
Stopped == pc \in {"done", "crashed", "off"}

Init ==
    /\ running = TRUE
    /\ pc = "m307"
    /\ clock = 1
    /\ max_duration \in SessionDurations
    /\ disk \in {"ok", "high"}
    /\ ncalls = 0
    /\ session_dir = 0
    /\ should_continue = TRUE
    /\ tracker = "unset"
    /\ unreleased = 0
    /\ pulls = 0
    /\ frame = 0
    /\ hands = "ok"
    /\ dirs = {}
    /\ rgb_dir = FALSE
    /\ intrinsics = "nominal"
    /\ camera_info = "absent"
    /\ cam_writes = 0
    /\ poses_exists = FALSE
    /\ poses = <<>>
    /\ torn = FALSE
    /\ images = {}
    /\ metadata = NoMetadata
    /\ frame_count = 0
    /\ timestamps = <<>>
    /\ start_time = 0
    /\ last_status_time = 0
    /\ elapsed = 0
    /\ timestamp_ms = 0
    /\ gate = "pending"
    /\ verified = 0
    /\ mkdir_failed = 0
    /\ exit_reason = "none"
    /\ exit_raised = FALSE
    /\ sig_pc = "none"
    /\ sig_pulls = -1

\* ------------------------------------------------------------ environment

\* SignalHandler raising into the interrupted code, as Python's default
\* SIGINT handler does, besides clearing the flag
SignalHandlerRaises ==
    /\ ~Stopped
    /\ running' = FALSE
    /\ pc' = "crashed"
    /\ IF running
       THEN sig_pc' = pc /\ sig_pulls' = pulls
       ELSE UNCHANGED sighist
    /\ UNCHANGED <<clock, disk, mainvars, tracker, unreleased, pulls, files,
                   locals, history>>

\* signal_handler: SIGINT / SIGTERM delivered between two steps
SignalHandler ==
    /\ ~Stopped
    /\ running' = FALSE
    /\ IF running
       THEN sig_pc' = pc /\ sig_pulls' = pulls
       ELSE UNCHANGED sighist
    /\ UNCHANGED <<pc, clock, disk, mainvars, tracker, unreleased, pulls,
                   files, locals, history>>

\* another writer fills the disk above max_disk_usage
DiskFills ==
    /\ ~Stopped
    /\ disk = "ok"
    /\ disk' = "high"
    /\ UNCHANGED <<sighist, running, pc, clock, mainvars, tracker, unreleased,
                   pulls, files, locals, history>>

\* ------------------------------------------------------------------- main

\* MainLoop with a retry limit: main gives up after a session attempt whose
\* construction or verification failed
MainLoopGivesUp ==
    /\ pc = "m307"
    /\ running => ncalls < MaxSessions
    /\ pc' = IF running /\ gate \notin {"ctor_failed", "verify_failed"}
             THEN "m308"
             ELSE "done"
    /\ UNCHANGED <<sighist, running, clock, disk, mainvars, tracker,
                   unreleased, pulls, files, locals, history>>

\* MainLoop as `while True:`, starting the next session whatever the flag
MainLoopIgnoresFlag ==
    /\ pc = "m307"
    /\ ncalls < MaxSessions
    /\ pc' = "m308"
    /\ UNCHANGED <<sighist, running, clock, disk, mainvars, tracker,
                   unreleased, pulls, files, locals, history>>

\* while running:  (line 307).  MaxSessions caps the calls of one run: a run
\* that would start one more session is followed no further
MainLoop ==
    /\ pc = "m307"
    /\ running => ncalls < MaxSessions
    /\ pc' = IF running THEN "m308" ELSE "done"
    /\ UNCHANGED <<sighist, running, clock, disk, mainvars, tracker,
                   unreleased, pulls, files, locals, history>>

\* session_dir = recordings_dir / session_<now>; record_session(session_dir,
\* ...) is entered with fresh locals.  The file variables describe the
\* directory session_dir names, which is a new name (FreshName below), so
\* they start out absent; dirs keeps every directory made so far
CallRecordSession ==
    /\ pc = "m308"
    /\ session_dir' = clock
    /\ ncalls' = ncalls + 1
    /\ pc' = "r80"
    /\ tracker' = "unset"
    /\ pulls' = 0
    /\ frame' = 0
    /\ hands' = "ok"
    /\ rgb_dir' = FALSE
    /\ intrinsics' = "nominal"
    /\ camera_info' = "absent"
    /\ cam_writes' = 0
    /\ poses_exists' = FALSE
    /\ poses' = <<>>
    /\ torn' = FALSE
    /\ images' = {}
    /\ metadata' = NoMetadata
    /\ frame_count' = 0
    /\ timestamps' = <<>>
    /\ start_time' = 0
    /\ last_status_time' = 0
    /\ elapsed' = 0
    /\ timestamp_ms' = 0
    /\ gate' = "pending"
    /\ exit_reason' = "none"
    /\ exit_raised' = FALSE
    /\ UNCHANGED <<sighist, running, clock, disk, max_duration,
                   should_continue, unreleased, dirs, verified, mkdir_failed>>

\* if not should_continue: break   (line 317)
MainCheck ==
    /\ pc = "m317"
    /\ pc' = IF should_continue THEN "m322" ELSE "done"
    /\ UNCHANGED <<sighist, running, clock, disk, mainvars, tracker,
                   unreleased, pulls, files, locals, history>>

\* time.sleep(2)   (line 322)
MainSleep ==
    /\ pc = "m322"
    /\ clock' = clock + SessionPause
    /\ pc' = "m307"
    /\ UNCHANGED <<sighist, running, disk, mainvars, tracker, unreleased,
                   pulls, files, locals, history>>

\* --------------------------------------------- record_session: ACQUIRING

\* an exception no handler catches leaves record_session and then main
Raise == pc' = "crashed"

\* tracker = HandTracker(...)   (lines 79-92)
ConstructTracker ==
    /\ pc = "r80"
    /\ \/ /\ tracker' = "live"
          /\ unreleased' = unreleased + 1
          /\ pc' = "r99"
          /\ UNCHANGED gate
       \/ /\ gate' = "ctor_failed"
          /\ pc' = "r93"
          /\ UNCHANGED <<tracker, unreleased>>
    /\ UNCHANGED <<sighist, running, clock, disk, mainvars, pulls, files,
                   locals, verified, mkdir_failed, exit_reason, exit_raised>>

\* time.sleep(5); return running   (lines 93-94)
ConstructRetry ==
    /\ pc = "r93"
    /\ clock' = clock + RetryBackoff
    /\ should_continue' = running
    /\ pc' = "m317"
    /\ UNCHANGED <<sighist, running, disk, max_duration, ncalls, session_dir,
                   tracker, unreleased, pulls, files, locals, history>>

\* --------------------------------------------- record_session: VERIFYING

\* first_frame, _, _ = tracker.next_frame(): a frame, None, or an exception
\* (lines 98-100, 109)
VerifyFirstFrame ==
    /\ pc = "r99"
    /\ \/ /\ pulls' = pulls + 1
          /\ gate' = "passed"
          /\ verified' = verified + 1
          /\ pc' = "r120"
       \/ /\ gate' = "verify_failed"
          /\ pc' = "r104"
          /\ UNCHANGED <<pulls, verified>>
       \/ /\ gate' = "verify_failed"
          /\ pc' = "r113"
          /\ UNCHANGED <<pulls, verified>>
    /\ UNCHANGED <<sighist, running, clock, disk, mainvars, tracker,
                   unreleased, files, locals, mkdir_failed, exit_reason,
                   exit_raised>>

\* try: tracker.exit() except: pass
ReleaseTracker ==
    /\ tracker' = "exited"
    /\ unreleased' = unreleased - 1
    /\ exit_raised' \in BOOLEAN

\* first_frame is None: release   (lines 103-106)
ReleaseAfterNone ==
    /\ pc = "r104"
    /\ ReleaseTracker
    /\ pc' = "r107"
    /\ UNCHANGED <<sighist, running, clock, disk, mainvars, pulls, files,
                   locals, gate, verified, mkdir_failed, exit_reason>>

\* next_frame raised: release   (lines 112-115)
ReleaseAfterError ==
    /\ pc = "r113"
    /\ ReleaseTracker
    /\ pc' = "r107"
    /\ UNCHANGED <<sighist, running, clock, disk, mainvars, pulls, files,
                   locals, gate, verified, mkdir_failed, exit_reason>>

\* VerifyRetry with the session folder made before the camera is verified
VerifyRetryFolderFirst ==
    /\ pc = "r107"
    /\ clock' = clock + RetryBackoff
    /\ should_continue' = running
    /\ dirs' = dirs \cup {session_dir}
    /\ pc' = "m317"
    /\ UNCHANGED <<sighist, running, disk, max_duration, ncalls, session_dir,
                   tracker, unreleased, pulls, rgb_dir, camera_info,
                   cam_writes, poses_exists, poses, torn, images, metadata,
                   locals, history>>

\* VerifyRetry returning True instead of the flag after a failed
\* verification
VerifyRetryReturnsTrue ==
    /\ pc = "r107"
    /\ clock' = clock + RetryBackoff
    /\ should_continue' = TRUE
    /\ pc' = "m317"
    /\ UNCHANGED <<sighist, running, disk, max_duration, ncalls, session_dir,
                   tracker, unreleased, pulls, files, locals, history>>

\* time.sleep(5); return running   (lines 107-108, 116-117)
VerifyRetry ==
    /\ pc = "r107"
    /\ clock' = clock + RetryBackoff
    /\ should_continue' = running
    /\ pc' = "m317"
    /\ UNCHANGED <<sighist, running, disk, max_duration, ncalls, session_dir,
                   tracker, unreleased, pulls, files, locals, history>>

\* ------------------------------------------------ record_session: ACTIVE

\* output_dir.mkdir(parents=True, exist_ok=True)   (line 120)
MakeSessionDir ==
    /\ pc = "r120"
    /\ \/ /\ dirs' = dirs \cup {session_dir}
          /\ pc' = "r122"
          /\ UNCHANGED mkdir_failed
       \/ /\ mkdir_failed' = mkdir_failed + 1
          /\ Raise
          /\ UNCHANGED dirs
    /\ UNCHANGED <<sighist, running, clock, disk, mainvars, tracker,
                   unreleased, pulls, rgb_dir, camera_info, cam_writes,
                   poses_exists, poses, torn, images, metadata, locals, gate,
                   verified, exit_reason, exit_raised>>

\* rgb_dir.mkdir(exist_ok=True)   (lines 121-122)
MakeRgbDir ==
    /\ pc = "r122"
    /\ \/ /\ rgb_dir' = TRUE
          /\ pc' = "r138"
       \/ /\ Raise
          /\ UNCHANGED rgb_dir
    /\ UNCHANGED <<sighist, running, clock, disk, mainvars, tracker,
                   unreleased, pulls, dirs, camera_info, cam_writes,
                   poses_exists, poses, torn, images, metadata, locals,
                   history>>

\* intrinsics from tracker.resolution, replaced by the device calibration when
\* readCalibration() does not raise   (lines 127-149)
ResolveIntrinsics ==
    /\ pc = "r138"
    /\ intrinsics' \in {"nominal", "calibrated"}
    /\ pc' = "r151"
    /\ UNCHANGED <<sighist, running, clock, disk, mainvars, tracker,
                   unreleased, pulls, files, frame_count, timestamps,
                   start_time, last_status_time, elapsed, timestamp_ms, frame,
                   hands, history>>

\* with open(camera_info.json, "w") as f: json.dump(...)   (lines 151-152)
WriteCameraInfo ==
    /\ pc = "r151"
    /\ \/ /\ camera_info' = intrinsics
          /\ cam_writes' = cam_writes + 1
          /\ pc' = "r156"
       \/ /\ Raise
          /\ UNCHANGED <<camera_info, cam_writes>>
       \/ /\ camera_info' = "partial"
          /\ cam_writes' = cam_writes + 1
          /\ Raise
    /\ UNCHANGED <<sighist, running, clock, disk, mainvars, tracker,
                   unreleased, pulls, dirs, rgb_dir, poses_exists, poses, torn,
                   images, metadata, locals, history>>

\* HeaderRecord built from the nominal intrinsics of line 127, whatever the
\* calibration read returned
HeaderRecordNominal == [type |-> "header", intrinsics |-> "nominal"]

\* the header line: {"type": "header", "intrinsics": intrinsics}   (lines 157-163)
HeaderRecord == [type |-> "header", intrinsics |-> intrinsics]

\* open(poses_file, "w"): the file is created (or truncated) empty   (line 156)
OpenPosesFile ==
    /\ pc = "r156"
    /\ \/ /\ poses_exists' = TRUE
          /\ poses' = <<>>
                /\ pc' = "r164"
       \/ /\ Raise
          /\ UNCHANGED <<poses_exists, poses>>
    /\ UNCHANGED <<sighist, running, clock, disk, mainvars, tracker,
                   unreleased, pulls, dirs, rgb_dir, camera_info, cam_writes,
                   torn, images, metadata, locals, history>>

\* f.write(json.dumps(header) + "\n") and the close that flushes it
\* (lines 157-164)
WriteHeader ==
    /\ pc = "r164"
    /\ \/ /\ poses' = Append(poses, HeaderRecord)
          /\ pc' = "r166"
          /\ UNCHANGED torn
       \/ /\ torn' \in BOOLEAN
          /\ Raise
          /\ UNCHANGED poses
    /\ UNCHANGED <<sighist, running, clock, disk, mainvars, tracker,
                   unreleased, pulls, dirs, rgb_dir, camera_info, cam_writes,
                   poses_exists, images, metadata, locals, history>>

\* frame_count = 0; timestamps = []; start_time = last_status_time = time.time()
\* (lines 166-169)
StartLoop ==
    /\ pc = "r166"
    /\ frame_count' = 0
    /\ timestamps' = <<>>
    /\ start_time' = clock
    /\ last_status_time' = clock
    /\ pc' = "r171"
    /\ UNCHANGED <<sighist, running, clock, disk, mainvars, tracker,
                   unreleased, pulls, files, elapsed, timestamp_ms, frame,
                   hands, intrinsics, history>>

\* -------------------------------------------- record_session: frame loop

\* LoopTest as `while True:`, the frame loop left only on the duration, the
\* disk or a source failure
LoopTestIgnoresFlag ==
    /\ pc = "r171"
    /\ elapsed' = clock - start_time
    /\ IF elapsed' > max_duration
       THEN exit_reason' = "duration" /\ pc' = "r254"
       ELSE pc' = "r180" /\ UNCHANGED exit_reason
    /\ UNCHANGED <<sighist, running, clock, disk, mainvars, tracker,
                   unreleased, pulls, files, frame_count, timestamps,
                   start_time, last_status_time, timestamp_ms, frame, hands,
                   intrinsics, gate, verified, mkdir_failed, exit_raised>>

\* while running: elapsed = time.time() - start_time;
\* if elapsed > max_duration: break   (lines 171-177)
LoopTest ==
    /\ pc = "r171"
    /\ IF ~running
       THEN /\ exit_reason' = "flag"
            /\ pc' = "r254"
            /\ UNCHANGED elapsed
       ELSE /\ elapsed' = clock - start_time
            /\ IF elapsed' > max_duration
               THEN exit_reason' = "duration" /\ pc' = "r254"
               ELSE pc' = "r180" /\ UNCHANGED exit_reason
    /\ UNCHANGED <<sighist, running, clock, disk, mainvars, tracker,
                   unreleased, pulls, files, frame_count, timestamps,
                   start_time, last_status_time, timestamp_ms, frame, hands,
                   intrinsics, gate, verified, mkdir_failed, exit_raised>>

\* if time.time() - last_status_time > 30: sample the disk; the sample is
\* above max_disk_usage, or not, or shutil.disk_usage raises   (lines 179-187)
DiskCheck ==
    /\ pc = "r180"
    /\ IF clock - last_status_time > StatusInterval
       THEN \/ /\ disk = "high"
               /\ running' = FALSE
               /\ exit_reason' = "disk"
               /\ pc' = "r254"
               /\ UNCHANGED last_status_time
            \/ /\ disk = "ok"
               /\ last_status_time' = clock
               /\ pc' = "r191"
               /\ UNCHANGED <<running, exit_reason>>
            \/ /\ Raise
               /\ UNCHANGED <<running, exit_reason, last_status_time>>
       ELSE /\ pc' = "r191"
            /\ UNCHANGED <<running, exit_reason, last_status_time>>
    /\ UNCHANGED <<sighist, clock, disk, mainvars, tracker, unreleased, pulls,
                   files, frame_count, timestamps, start_time, elapsed,
                   timestamp_ms, frame, hands, intrinsics, gate, verified,
                   mkdir_failed, exit_raised>>

\* NextFrame treating a raised source failure as a reason to stop the whole
\* program: the except branch clears the flag before leaving the loop
NextFrameStopsProgram ==
    /\ pc = "r191"
    /\ \/ /\ pulls < MaxPulls
          /\ \E d \in FrameDelays, h \in {"ok", "bad"} :
                /\ clock' = clock + d
                /\ hands' = h
          /\ pulls' = pulls + 1
          /\ frame' = pulls + 1
          /\ pc' = "r200"
          /\ UNCHANGED <<exit_reason, running>>
       \/ /\ exit_reason' = "source_raised"
          /\ running' = FALSE
          /\ pc' = "r254"
          /\ UNCHANGED <<clock, hands, pulls, frame>>
       \/ /\ exit_reason' = "source_none"
          /\ frame' = 0
          /\ pc' = "r254"
          /\ UNCHANGED <<clock, hands, pulls, running>>
    /\ UNCHANGED <<sighist, disk, mainvars, tracker, unreleased,
                   files, frame_count, timestamps, start_time,
                   last_status_time, elapsed, timestamp_ms, intrinsics, gate,
                   verified, mkdir_failed, exit_raised>>

\* frame, hands, bag = tracker.next_frame(); an exception or a None frame
\* leaves the loop   (lines 190-198)
NextFrame ==
    /\ pc = "r191"
    /\ \/ /\ pulls < MaxPulls
          /\ \E d \in FrameDelays, h \in {"ok", "bad"} :
                /\ clock' = clock + d
                /\ hands' = h
          /\ pulls' = pulls + 1
          /\ frame' = pulls + 1
          /\ pc' = "r200"
          /\ UNCHANGED exit_reason
       \/ /\ exit_reason' = "source_raised"
          /\ pc' = "r254"
          /\ UNCHANGED <<clock, hands, pulls, frame>>
       \/ /\ exit_reason' = "source_none"
          /\ frame' = 0
          /\ pc' = "r254"
          /\ UNCHANGED <<clock, hands, pulls>>
    /\ UNCHANGED <<sighist, running, disk, mainvars, tracker, unreleased,
                   files, frame_count, timestamps, start_time,
                   last_status_time, elapsed, timestamp_ms, intrinsics, gate,
                   verified, mkdir_failed, exit_raised>>

\* DeriveRecord skipping a frame whose detections cannot be read (`continue`
\* instead of the exception), so a delivered frame gets no record
DeriveRecordSkipsBad ==
    /\ pc = "r200"
    /\ timestamp_ms' = elapsed * 1000
    /\ pc' = IF hands = "bad" THEN "r171" ELSE "r237"
    /\ UNCHANGED <<sighist, running, clock, disk, mainvars, tracker,
                   unreleased, pulls, files, frame_count, timestamps,
                   start_time, last_status_time, elapsed, frame, hands,
                   intrinsics, history>>

\* timestamp_ms = int(elapsed * 1000); hands_data, body_data: hand.label and
\* hand.lm_score are read without a presence check   (lines 200-233)
DeriveRecord ==
    /\ pc = "r200"
    /\ timestamp_ms' = elapsed * 1000
    /\ IF hands = "bad" THEN Raise ELSE pc' = "r237"
    /\ UNCHANGED <<sighist, running, clock, disk, mainvars, tracker,
                   unreleased, pulls, files, frame_count, timestamps,
                   start_time, last_status_time, elapsed, frame, hands,
                   intrinsics, history>>

\* cv2.imwrite(rgb_frames/frame_<frame_count>.jpg, frame, ...): the file is
\* written, or imwrite returns False (the result is not looked at), or it
\* raises cv2.error   (lines 236-237)
WriteImage ==
    /\ pc = "r237"
    /\ \/ /\ images' = images \cup {frame_count}
          /\ pc' = "r247"
       \/ /\ pc' = "r247"
          /\ UNCHANGED images
       \/ /\ Raise
          /\ UNCHANGED images
    /\ UNCHANGED <<sighist, running, clock, disk, mainvars, tracker,
                   unreleased, pulls, dirs, rgb_dir, camera_info, cam_writes,
                   poses_exists, poses, torn, metadata, locals, history>>

FrameRecord == [type |-> "frame", frame_idx |-> frame_count,
                timestamp_ms |-> timestamp_ms, src |-> frame]

\* with open(poses_file, "a") as f: f.write(json.dumps(frame_pose) + "\n")
\* (lines 240-248)
AppendRecord ==
    /\ pc = "r247"
    /\ \/ /\ poses' = Append(poses, FrameRecord)
          /\ pc' = "r250"
          /\ UNCHANGED torn
       \/ /\ torn' \in BOOLEAN
          /\ Raise
          /\ UNCHANGED poses
    /\ UNCHANGED <<sighist, running, clock, disk, mainvars, tracker,
                   unreleased, pulls, dirs, rgb_dir, camera_info, cam_writes,
                   poses_exists, images, metadata, locals, history>>

\* AdvanceCounter without the increment of frame_count
AdvanceCounterStuck ==
    /\ pc = "r250"
    /\ timestamps' = Append(timestamps, timestamp_ms)
    /\ pc' = "r171"
    /\ UNCHANGED <<sighist, running, clock, disk, mainvars, tracker,
                   unreleased, pulls, files, frame_count, start_time,
                   last_status_time, elapsed, timestamp_ms, frame, hands,
                   intrinsics, history>>

\* timestamps.append(timestamp_ms); frame_count += 1   (lines 250-251)
AdvanceCounter ==
    /\ pc = "r250"
    /\ timestamps' = Append(timestamps, timestamp_ms)
    /\ frame_count' = frame_count + 1
    /\ pc' = "r171"
    /\ UNCHANGED <<sighist, running, clock, disk, mainvars, tracker,
                   unreleased, pulls, files, start_time, last_status_time,
                   elapsed, timestamp_ms, frame, hands, intrinsics, history>>

\* ------------------------------------ record_session: DRAINING and CLOSED

\* ReleaseAfterLoop without the try/except around tracker.exit(): a raising
\* release leaves record_session
ReleaseAfterLoopUnguarded ==
    /\ pc = "r254"
    /\ ReleaseTracker
    /\ IF exit_raised' THEN Raise ELSE pc' = "r260"
    /\ UNCHANGED <<sighist, running, clock, disk, mainvars, pulls, files,
                   locals, gate, verified, mkdir_failed, exit_reason>>

\* try: tracker.exit() except: pass   (lines 253-257)
ReleaseAfterLoop ==
    /\ pc = "r254"
    /\ ReleaseTracker
    /\ pc' = "r260"
    /\ UNCHANGED <<sighist, running, clock, disk, mainvars, pulls, files,
                   locals, gate, verified, mkdir_failed, exit_reason>>

\* actual_duration = timestamps[-1] / 1000.0 if timestamps else 0
LastTimestamp == IF timestamps # <<>> THEN timestamps[Len(timestamps)] ELSE 0

\* WriteMetadata without the frame_count > 0 test
WriteMetadataAlways ==
    /\ pc = "r260"
    /\ metadata' = [state |-> "written", frame_count |-> frame_count,
                    duration_ms |-> LastTimestamp]
    /\ pc' = "r275"
    /\ UNCHANGED <<sighist, running, clock, disk, mainvars, tracker,
                   unreleased, pulls, dirs, rgb_dir, camera_info, cam_writes,
                   poses_exists, poses, torn, images, locals, history>>

\* if frame_count > 0: write metadata.json   (lines 260-273)
WriteMetadata ==
    /\ pc = "r260"
    /\ IF frame_count > 0
       THEN \/ /\ metadata' = [state |-> "written",
                               frame_count |-> frame_count,
                               duration_ms |-> LastTimestamp]
               /\ pc' = "r275"
            \/ /\ Raise
               /\ UNCHANGED metadata
            \/ /\ metadata' = [NoMetadata EXCEPT !.state = "partial"]
               /\ Raise
       ELSE /\ pc' = "r275"
            /\ UNCHANGED metadata
    /\ UNCHANGED <<sighist, running, clock, disk, mainvars, tracker,
                   unreleased, pulls, dirs, rgb_dir, camera_info, cam_writes,
                   poses_exists, poses, torn, images, locals, history>>

\* return running   (line 275)
ReturnRunning ==
    /\ pc = "r275"
    /\ should_continue' = running
    /\ pc' = "m317"
    /\ UNCHANGED <<sighist, running, clock, disk, max_duration, ncalls,
                   session_dir, tracker, unreleased, pulls, files, locals,
                   history>>

\* ------------------------------------------------- storage and power

\* sudden power loss: the process is gone.  hand_poses.jsonl is closed after
\* every write but never fsync'ed, so the medium holds some prefix of the
\* lines handed to the operating system, possibly with part of the next line
PowerLoss ==
    /\ ~Stopped
    /\ pc' = "off"
    /\ \E n \in 0..Len(poses) :
          /\ poses' = SubSeq(poses, 1, n)
          /\ torn' \in IF n < Len(poses) THEN BOOLEAN ELSE {FALSE}
    /\ UNCHANGED <<sighist, running, clock, disk, mainvars, tracker,
                   unreleased, pulls, dirs, rgb_dir, camera_info, cam_writes,
                   poses_exists, images, metadata, locals, history>>

\* ----------------------------------------------------------- specification

Next ==
    \/ SignalHandler
    \/ DiskFills
    \/ MainLoop
    \/ CallRecordSession
    \/ MainCheck
    \/ MainSleep
    \/ ConstructTracker
    \/ ConstructRetry
    \/ VerifyFirstFrame
    \/ ReleaseAfterNone
    \/ ReleaseAfterError
    \/ VerifyRetry
    \/ MakeSessionDir
    \/ MakeRgbDir
    \/ ResolveIntrinsics
    \/ WriteCameraInfo
    \/ OpenPosesFile
    \/ WriteHeader
    \/ StartLoop
    \/ LoopTest
    \/ DiskCheck
    \/ NextFrame
    \/ DeriveRecord
    \/ WriteImage
    \/ AppendRecord
    \/ AdvanceCounter
    \/ ReleaseAfterLoop
    \/ WriteMetadata
    \/ ReturnRunning
    \/ PowerLoss

Spec == Init /\ [][Next]_vars

\* one step of the thread of control: main or record_session, every call
\* they make returning or raising
ProgramStep ==
    \/ MainLoop
    \/ CallRecordSession
    \/ MainCheck
    \/ MainSleep
    \/ ConstructTracker
    \/ ConstructRetry
    \/ VerifyFirstFrame
    \/ ReleaseAfterNone
    \/ ReleaseAfterError
    \/ VerifyRetry
    \/ MakeSessionDir
    \/ MakeRgbDir
    \/ ResolveIntrinsics
    \/ WriteCameraInfo
    \/ OpenPosesFile
    \/ WriteHeader
    \/ StartLoop
    \/ LoopTest
    \/ DiskCheck
    \/ NextFrame
    \/ DeriveRecord
    \/ WriteImage
    \/ AppendRecord
    \/ AdvanceCounter
    \/ ReleaseAfterLoop
    \/ WriteMetadata
    \/ ReturnRunning

\* the program on a machine that stays powered
LiveNext ==
    \/ ProgramStep
    \/ SignalHandler
    \/ DiskFills

\* every blocking call (next_frame, time.sleep, a file operation) returns or
\* raises, so the thread of control takes its next step whenever it has one;
\* signals and the disk filling up are under no obligation to happen
LiveSpec == Init /\ [][LiveNext]_vars /\ WF_vars(ProgramStep)

\* ------------------------------------------------------------ properties

\* number of frame records in hand_poses.jsonl
NFrameRecords == IF poses = <<>> THEN 0 ELSE Len(poses) - 1

\* nothing of the current session is on storage
NoArtifacts ==
    /\ session_dir \notin dirs
    /\ ~rgb_dir
    /\ camera_info = "absent"
    /\ ~poses_exists
    /\ poses = <<>>
    /\ images = {}
    /\ metadata.state = "absent"

\* record_session has returned to main, or the program has ended
Returned == pc \in {"m317", "m322", "m307", "done", "crashed"}

\* output_dir names a directory no earlier session made: two calls of
\* record_session are at least SessionPause seconds apart
FreshName == pc \in {"r80", "r99", "r120"} => session_dir \notin dirs

\* C1 as stated: a session whose construction or verification failed leaves
\* no artifact, and the number of session directories equals the number of
\* sessions whose verification pull returned a frame
C1_DirsEqualVerified ==
    /\ gate # "passed" => NoArtifacts
    /\ Returned => Cardinality(dirs) = verified

\* C1 amended: a session whose construction or verification failed leaves no
\* artifact, and the number of session directories equals the number of
\* sessions whose verification pull returned a frame less those whose
\* output_dir.mkdir raised
C1_GateBeforeStorage ==
    /\ gate # "passed" => NoArtifacts
    /\ Returned => Cardinality(dirs) = verified - mkdir_failed

\* C1 witness: a first session passed the gate and made its directory, the
\* second failed verification and returned leaving nothing
C1_Witness ==
    /\ pc = "m317"
    /\ gate = "verify_failed"
    /\ verified = 1
    /\ Cardinality(dirs) = 1
    /\ NoArtifacts

C3_MetadataIffFrames ==
    pc = "m317" =>
        /\ metadata.state \in {"absent", "written"}
        /\ metadata.state = "written" <=> NFrameRecords >= 1
        /\ metadata.state = "written" =>
              /\ metadata.frame_count = NFrameRecords
              /\ Len(poses) = 1 + metadata.frame_count
              /\ metadata.duration_ms = poses[Len(poses)].timestamp_ms

\* C3 witness: a session returned with two frames summarised
C3_Witness ==
    /\ pc = "m317"
    /\ metadata.state = "written"
    /\ metadata.frame_count = 2
    /\ metadata.duration_ms > 0

\* C4 as stated: after a disk sample above the threshold with n frames
\* recorded no further frame is pulled, running is false, record_session
\* returns False, metadata.json records n frames and main ends
C4_DiskStopsProgram ==
    exit_reason = "disk" /\ pc # "off" =>
        /\ ~running
        /\ pulls = frame_count + 1
        /\ pc \in {"r254", "r260", "r275", "m317", "done"}
        /\ pc \in {"m317", "done"} =>
              /\ ~should_continue
              /\ frame_count >= 1 =>
                    /\ metadata.state = "written"
                    /\ metadata.frame_count = frame_count

\* positions of a frame-loop iteration from the image write on
ImageWriteBegun == {"r237", "r247", "r250"}

\* C5, one step: a step that clears running outside the disk branch moves
\* nothing else of the session; an iteration whose image write has begun is
\* left only through the record append (or an exception of a storage call,
\* or power loss); and when the loop is left every image written has its
\* complete record
C5_Step ==
    /\ (running /\ ~running' /\ pc # "r180") =>
          /\ pc' = pc
          /\ UNCHANGED <<files, locals, tracker, pulls>>
    /\ pc \in ImageWriteBegun =>
          pc' \in ImageWriteBegun \cup {"r171", "crashed", "off"}
    /\ (pc # "r254" /\ pc' = "r254") =>
          /\ Len(poses') = 1 + frame_count'
          /\ \A n \in images' : n < frame_count'
          /\ ~torn'

\* C5: a termination signal only clears running and never interrupts the
\* iteration: a frame whose image write has begun gets its complete record
\* before the loop exits
C5_SignalNeverInterrupts == [][C5_Step]_vars

\* C5 witness: the signal arrived between the image write and the append of
\* frame 1, and the loop then exited on the flag with record 1 appended
C5_Witness ==
    /\ pc = "r254"
    /\ exit_reason = "flag"
    /\ sig_pc = "r247"
    /\ sig_pulls = 3
    /\ frame_count = 2
    /\ 1 \in images
    /\ Len(poses) = 3
    /\ poses[3].frame_idx = 1

\* C6 as stated: a source failure inside the frame loop leaves running alone,
\* the recorded frames are summarised in metadata.json, and without signal
\* or disk exhaustion record_session returns True
C6_SourceFailureEndsSessionOnly ==
    exit_reason \in {"source_raised", "source_none"} /\ pc # "off" =>
        /\ pc # "crashed"
        /\ sig_pc = "none" => running
        /\ pc = "m317" =>
              /\ running => should_continue
              /\ NFrameRecords = frame_count
              /\ frame_count >= 1 =>
                    /\ metadata.state = "written"
                    /\ metadata.frame_count = frame_count

\* C7 as stated: once control has left record_session every Pose Source it
\* constructed had exit() invoked, and at most one is unreleased at any time
C7_TrackerAlwaysReleased ==
    /\ unreleased <= 1
    /\ Returned => unreleased = 0

\* C8 as stated: no exception leaves record_session; main only ever gets a
\* boolean
C8_NothingPropagates == pc # "crashed"

\* C9 as stated: after a power loss hand_poses.jsonl is the header followed
\* by complete frame records 0..k-1, k being the number of frames processed
\* or one less
C9_PowerLossLosesOneFrame ==
    (pc = "off" /\ poses_exists) =>
        /\ ~torn
        /\ Len(poses) >= 1
        /\ poses[1].type = "header"
        /\ \A i \in 2..Len(poses) : poses[i].frame_idx = i - 2
        /\ NFrameRecords >= frame_count - 1

\* C10 as stated: images and frame records alternate, so there are as many
\* images as records or one more, and record N exists only with image N
C10_ImageBeforeRecord ==
    pc # "off" =>
        /\ Cardinality(images) - NFrameRecords \in {0, 1}
        /\ \A i \in 2..Len(poses) : poses[i].frame_idx \in images

\* C11, one step: a step that changes running sets it to FALSE and is either
\* the signal handler (the thread of control stays where it is) or the disk
\* branch of the frame loop (line 180 to the loop exit); no step sets it back
C11_Step ==
    /\ running' # running =>
          /\ running' = FALSE
          /\ \/ pc' = pc /\ sig_pc' = pc
             \/ pc = "r180" /\ pc' = "r254" /\ exit_reason' = "disk"
    /\ ~running => ~running'

\* C11: running is changed only by the signal handler and by the
\* disk-exhaustion branch of the frame loop, each sets it to false, every
\* other step leaves it unchanged, and once false it is never true again
C11_RunningOnlyCleared == [][C11_Step]_vars

\* C11 witness: the disk branch cleared running (no signal arrived), and the
\* release, the metadata write and the return to main left it false
C11_Witness ==
    /\ pc = "done"
    /\ ~running
    /\ sig_pc = "none"
    /\ exit_reason = "disk"
    /\ metadata.state = "written"

\* C12: there is no retry limit.  While no session has passed verification
\* and running is true main has not ended and nothing is on storage, and a
\* failed attempt is followed by main reaching line 308 for the next one (up
\* to MaxSessions); and once running is false the program ends, every
\* blocking call returning
C12_RetriesForever ==
    /\ [](pc = "done" => ~running)
    /\ [](verified = 0 => pc # "crashed" /\ dirs = {} /\ NoArtifacts)
    /\ (pc = "r80" /\ ncalls < MaxSessions)
          ~> (pc = "m308" \/ ~running \/ gate = "passed")
    /\ ~running ~> Stopped

\* C12 witness: the first attempt failed at construction or verification,
\* main slept and has started the second attempt, nothing on storage
C12_Witness ==
    /\ pc = "r80"
    /\ ncalls = 2
    /\ verified = 0
    /\ running
    /\ clock >= 1 + RetryBackoff + SessionPause
    /\ dirs = {}

\* C13 as stated: when the elapsed time read at the top of the loop exceeds
\* max_duration the loop is left with no further pull, running is untouched,
\* the session is closed normally (source released, metadata.json written
\* when a frame was recorded) and main goes on to a new session unless the
\* flag is false: rotation never stops the program
C13_RotationClosesNormally ==
    exit_reason = "duration" /\ pc # "off" =>
        /\ elapsed > max_duration
        /\ pulls = frame_count + 1
        /\ sig_pc = "none" => running
        /\ pc \in {"r254", "r260", "r275", "m317", "m322", "m307", "m308",
                   "done"}
        /\ pc # "r254" => tracker = "exited" /\ unreleased = 0
        /\ pc \in {"m317", "m322", "m307", "m308", "done"} =>
              /\ should_continue \/ sig_pc # "none"
              /\ frame_count >= 1 =>
                    /\ metadata.state = "written"
                    /\ metadata.frame_count = frame_count
        /\ pc = "done" => ~running

\* C14, one step: a step that invokes tracker.exit() goes on to the same
\* position whether exit() returned or raised, and changes neither the flag,
\* nor a file, nor a local, nor what main will be handed
C14_Step ==
    (tracker = "live" /\ tracker' = "exited") =>
        /\ pc \in {"r104", "r113", "r254"}
        /\ pc' = IF pc = "r254" THEN "r260" ELSE "r107"
        /\ unreleased' = unreleased - 1
        /\ UNCHANGED <<running, should_continue, files, locals>>

\* C14, the return after a release that raised hands main the flag
C14_Return ==
    (exit_raised /\ pc # "m317" /\ pc' = "m317") => should_continue' = running

\* C14: a failure of the release operation is swallowed wherever release is
\* attempted: the step after it, the return value, the frame records and
\* metadata.json are what they are when the release succeeds
C14_ReleaseFailureSwallowed ==
    /\ [][C14_Step /\ C14_Return]_vars
    /\ [](exit_raised /\ pc = "m317" =>
             /\ metadata.state = "written" <=> NFrameRecords >= 1
             /\ metadata.state = "written" =>
                   metadata.frame_count = NFrameRecords)

\* C14 witness: tracker.exit() raised after the loop of a session with two
\* frames, and record_session returned True with metadata.json written
C14_Witness ==
    /\ pc = "m317"
    /\ exit_raised
    /\ should_continue
    /\ exit_reason = "source_raised"
    /\ metadata.state = "written"
    /\ metadata.frame_count = 2

\* C15, one step: a return of record_session (from line 94, 108/117 or 275)
\* hands main the value running has at that moment and leaves running as it
\* is; main's loop ends exactly on a False return (line 317) or on reading
\* the flag false at its loop boundary (line 307)
C15_Step ==
    /\ (pc # "m317" /\ pc' = "m317") =>
          /\ pc \in {"r93", "r107", "r275"}
          /\ should_continue' = running
          /\ running' = running
    /\ (pc = "m317" /\ pc' \notin {"m317", "off"}) =>
          /\ pc' \in {"done", "m322"}
          /\ pc' = "done" <=> ~should_continue
    /\ (pc = "m307" /\ pc' \notin {"m307", "off"}) =>
          /\ pc' \in {"done", "m308"}
          /\ pc' = "done" <=> ~running
    /\ (pc # "done" /\ pc' = "done") => pc \in {"m317", "m307"}

\* C15: on every return path record_session returns the value of running at
\* the moment of return, a failed verification included, and main ends
\* exactly when that value is False or its own read of the flag is false
C15_ReturnsRunning == [][C15_Step]_vars

\* C15 witness: the signal arrived during the verification of a session
\* whose first pull failed; record_session returned False
C15_Witness ==
    /\ pc = "m317"
    /\ gate = "verify_failed"
    /\ sig_pc \in {"r99", "r104", "r113", "r107"}
    /\ ~should_continue
    /\ ~running

\* the frame loop of the current session has been entered (line 166 passed)
LoopEntered == start_time # 0

\* camera_info.json is opened for writing at most once, a header is the
\* first line of hand_poses.jsonl and no other line, it carries the
\* intrinsics of camera_info.json, and nothing is pulled in the frame loop
\* (nor any frame record appended) before it is there
C16_Order ==
    /\ cam_writes <= 1
    /\ \A i \in 1..Len(poses) : poses[i].type = "header" <=> i = 1
    /\ pc # "off" =>
          /\ poses # <<>> => camera_info = poses[1].intrinsics
          /\ pulls > 1 => poses # <<>>

\* C16 as stated: every session that passes verification has camera_info.json
\* written exactly once and exactly one header, the first line of
\* hand_poses.jsonl, with the same intrinsics, before the frame loop pulls
C16_EverySessionWritesSetup ==
    /\ C16_Order
    /\ (gate = "passed" /\ Returned) =>
          /\ cam_writes = 1
          /\ camera_info \in {"nominal", "calibrated"}
          /\ poses # <<>>

\* C16, one step: once the frame loop is entered no step of the session
\* rewrites camera_info.json or the header line
C16_Step ==
    (LoopEntered /\ pc' # "off" /\ session_dir' = session_dir) =>
        /\ UNCHANGED <<camera_info, cam_writes>>
        /\ poses' # <<>>
        /\ poses'[1] = poses[1]

\* C16 amended: in every session that reaches the frame loop, that is one
\* that passed verification and whose directory, camera_info.json and header
\* writes did not raise, camera_info.json was written exactly once and the
\* header exactly once, as the first line, with the same intrinsics, before
\* any pull of the loop and any frame record; no later step rewrites either.
\* In a session where one of those calls raises each is written at most once
C16_SetupBeforeLoop ==
    /\ [](C16_Order)
    /\ []((LoopEntered /\ pc # "off") =>
             /\ gate = "passed"
             /\ cam_writes = 1
             /\ camera_info \in {"nominal", "calibrated"}
             /\ poses # <<>>)
    /\ [][C16_Step]_vars

\* C16 witness: a session with calibrated intrinsics returned after two
\* frame records; camera_info.json and the header agree
C16_Witness ==
    /\ pc = "m317"
    /\ LoopEntered
    /\ camera_info = "calibrated"
    /\ poses[1] = [type |-> "header", intrinsics |-> "calibrated"]
    /\ NFrameRecords = 2

\* the disk is above the threshold, no signal has arrived, the Pose Source
\* has delivered every frame asked of it and no call has raised
C17_Premise ==
    /\ disk = "high"
    /\ sig_pc = "none"
    /\ gate \notin {"ctor_failed", "verify_failed"}
    /\ exit_reason \notin {"source_raised", "source_none"}
    /\ pc # "crashed"

\* with max_duration no longer than the status interval the disk is never
\* sampled: line 176 leaves the loop before line 180 can find 30 s elapsed
C17_NeverSampled ==
    max_duration <= StatusInterval =>
        /\ exit_reason # "disk"
        /\ last_status_time = start_time

C18_NothingStartsAfterStop ==
    [][~running => unreleased' <= unreleased /\ dirs' = dirs]_vars

\* C18, one step: with running false a session is entered only from line
\* 308 (main had read the flag true at line 307), a Pose Source is
\* constructed and a directory made only in a session the signal found
\* between line 308 and that call, and main's loop boundary starts nothing
C18_Step ==
    ~running =>
        /\ ncalls' # ncalls => pc = "m308" /\ sig_pc = "m308"
        /\ unreleased' > unreleased => pc = "r80" /\ sig_pc \in {"m308", "r80"}
        /\ dirs' # dirs =>
              /\ pc = "r120"
              /\ sig_pc \in {"m308", "r80", "r99", "r120"}
        /\ pc = "m307" => pc' \in {"m307", "done", "off"}
        /\ pc = "m317" => pc' \in {"m317", "done", "m322", "off"}
        /\ pc = "r171" => pc' \in {"r171", "r254", "off"}

\* C18 amended: once running is false, at most the session main had already
\* decided to start goes on: its Pose Source is constructed and, if
\* verification passes, its directory made, and its frame loop pulls
\* nothing; no session is started at a loop boundary that reads the flag
\* false, so at most one Pose Source and one directory follow the signal
C18_AtMostTheStartedSession ==
    /\ [][C18_Step]_vars
    /\ []((~running /\ sig_pc \notin {"m308", "r80", "r99", "r120"}) =>
             pc \notin {"r80", "r99", "r120"})
    /\ [](sig_pc \in {"m308", "r80", "r99", "r120"} =>
             pc \notin {"r180", "r191", "r200", "r237", "r247", "r250"})

\* C18 witness: the signal arrived between main's loop check and the call;
\* the session still constructed its source, made its directory, pulled no
\* frame in the loop and returned False, and main ended
C18_Witness ==
    /\ pc = "done"
    /\ sig_pc = "m308"
    /\ ncalls = 1
    /\ session_dir \in dirs
    /\ verified = 1
    /\ pulls = 1
    /\ unreleased = 0
    /\ NFrameRecords = 0

\* positions inside the frame loop (lines 171-251)
FrameLoopPcs == {"r171", "r180", "r191", "r200", "r237", "r247", "r250"}

\* frame records in hand_poses.jsonl when the signal arrived: one per frame
\* pulled in the loop, less the frame then between its pull and its append
RecordsAtSignal ==
    IF sig_pc \in {"r200", "r237", "r247"}
    THEN sig_pulls - 2
    ELSE sig_pulls - 1

\* C19: after a signal clears running during the frame loop at most one more
\* frame is pulled and at most one more frame record appended; then the loop
\* exits, the source is released and no further session starts
C19_AtMostOneMoreFrame ==
    (sig_pc \in FrameLoopPcs /\ pc # "off") =>
        /\ pulls <= sig_pulls + 1
        /\ sig_pc \notin {"r180", "r191"} => pulls = sig_pulls
        /\ NFrameRecords <= RecordsAtSignal + 1
        /\ pc \in FrameLoopPcs \cup {"r254", "r260", "r275", "m317", "done",
                                     "crashed"}
        /\ pc \in {"r260", "r275", "m317", "done"} =>
              tracker = "exited" /\ unreleased = 0

\* C19 witness: the signal arrived just before the pull of the second loop
\* frame; that frame was pulled and recorded, the loop then exited on the
\* flag and the source was released
C19_Witness ==
    /\ sig_pc = "r191"
    /\ sig_pulls = 2
    /\ pulls = 3
    /\ NFrameRecords = 2
    /\ exit_reason = "flag"
    /\ pc = "r260"
    /\ unreleased = 0

\* the verification frame (the first delivered) is in no record: the record
\* with frame_idx k was derived from the (k+2)-th frame delivered
C20_Offset ==
    \A i \in 2..Len(poses) :
        /\ poses[i].src = poses[i].frame_idx + 2
        /\ poses[i].src # 1

====
